---- MODULE Spec2Model ----
(***************************************************************************)
(* microtrip as state machines: the Express places gateway                 *)
(* (backend/src/index.ts), the VenueStatus widget, the InteractiveMap      *)
(* widget and the three results views.                                     *)
(*                                                                         *)
(* SpecGateway  one request at a time through the three POST handlers;     *)
(*              every await of an upstream call is a separate step.        *)
(* SpecVenue    one VenueStatus instance: mount, timer ticks, retry        *)
(*              clicks, venueId changes, unmount, and the completions of   *)
(*              its fetches in any order.                                  *)
(* SpecMap      one InteractiveMap instance: the loader settles, the       *)
(*              points change, markers are clicked, details requests       *)
(*              settle in any order, the map applies a deferred fit.       *)
(* SpecResults  one results view of any of the three variants: its mount   *)
(*              effect on a stored text, the photo URL of a place card,    *)
(*              the button back to the start.                              *)
(***************************************************************************)
EXTENDS Integers, Sequences, FiniteSets

VARIABLES
    \* ---- backend/src/index.ts ----
    apiKey,               \* process.env.GOOGLE_PLACES_API_KEY is set
    pc,                   \* where the handler of the current request stands
    body,                 \* req.body of the current request
    upstream,             \* the axios.post calls made for the current request
    attractionsResponse,  \* data of the first upstream answer of recommend
    restaurantsResponse,  \* data of the second upstream answer of recommend
    responses,            \* what the handler sent on res, in order
    route,                \* the endpoint of the current request
    settled,              \* how the upstream calls of the request settled
    \* ---- src/components/VenueStatus.tsx ----
    publicApiKey,         \* process.env.NEXT_PUBLIC_GOOGLE_PLACES_API_KEY is set
    venueId,              \* the venueId prop
    venueData,            \* useState<VenueData | null>
    loading,              \* useState(true)
    error,                \* useState<string | null>
    phase,                \* "created", "mounted" or "unmounted"
    interval,             \* the setInterval handle is live
    inflight,             \* pending fetch() calls, per requested venue id
    cycles,               \* calls of fetchVenueData so far
    caller,               \* who called fetchVenueData last: effect, interval or click
    hour,                 \* the hour of the local wall clock, now.getHours()
    lateUpdate,           \* a completion called the setters after unmount
    \* ---- src/components/InteractiveMap.tsx ----
    mapRef,               \* mapRef.current is the element of the widget
    loader,               \* loader.load(): "pending", "resolved" or "rejected"
    map,                  \* useState<google.maps.Map | null>: an instance is set
    infoWindow,           \* useState<google.maps.InfoWindow | null>: one is set
    points,               \* the points prop
    markers,              \* useState<google.maps.Marker[]>
    onMap,                \* ids of the markers whose map is this map
    created,              \* markers constructed so far
    placeDetails,         \* useState<Record<string, PlaceDetails>>
    detailFetches,        \* highlightMarker calls awaiting fetchPlaceDetails
    issued,               \* fetch() calls of fetchPlaceDetails, per place id
    fresh,                \* place ids fetched with success since the markers were made
    popup,                \* what the info window was last opened with
    zoom,                 \* map.getZoom() once the viewport is applied
    pendingFit,           \* zoom of a fitBounds call still to be applied, 0: none
    fitted,               \* the last run of the markers effect called fitBounds
    \* ---- the results views: frontend/src/app/results/page.tsx,
    \*      unnamed/part_000, and the view in src/components/InteractiveMap.tsx
    variant,              \* which of the three results views this is
    stored,               \* localStorage.getItem('tripRecommendations')
    shownRecommendation,  \* useState<TripRecommendation | null> of the view
    resultsError,         \* useState<string | null> of the view
    editedItinerary,      \* useState<ItineraryItem[]>
    resultsPhase,         \* "created", "mounted" or "left"
    escaped,              \* an exception left the mount effect
    photoReference,       \* the last argument of getPhotoUrl
    photoUrl              \* what that call returned

gatewayVars == <<apiKey, pc, body, upstream, attractionsResponse,
                 restaurantsResponse, responses, route, settled>>
venueVars == <<publicApiKey, venueId, venueData, loading, error, phase,
               interval, inflight, cycles, caller, hour, lateUpdate>>
mapVars == <<mapRef, loader, map, infoWindow, points, markers, onMap, created,
             placeDetails, detailFetches, issued, fresh, popup, zoom,
             pendingFit, fitted>>
resultsVars == <<variant, stored, shownRecommendation, resultsError,
                 editedItinerary,
                 resultsPhase, escaped, photoReference, photoUrl>>
vars == <<gatewayVars, venueVars, mapVars, resultsVars>>

Min(a, b) == IF a < b THEN a ELSE b
Max(a, b) == IF a > b THEN a ELSE b

(***************************************************************************)
(* Bounds of the model.                                                    *)
(***************************************************************************)
MaxAttractions == 9   \* longest attractions list upstream returns
MaxRestaurants == 5   \* longest restaurants list upstream returns
MaxInflight == 2      \* fetches of one widget pending at the same time
MaxCycles == 2        \* fetch cycles of one widget that are followed
RandomSteps == 3      \* values of Math.random() that are followed
RandomDenominator == 100  \* Math.random() is one of n / RandomDenominator
MaxPoints == 2        \* longest points list a parent passes
MaxCreated == 4       \* markers one widget constructs
MaxDetailFetches == 2 \* place details requests one widget issues
MaxSlotPlaces == 2    \* most places of one slot of a stored recommendation
MaxSegments == 4      \* most pieces of a photo reference between its slashes

(***************************************************************************)
(* The places gateway.                                                     *)
(***************************************************************************)
CityNames == {"Paris", "Lyon"}
Budgets == {"low", "medium"}
TripTypes == {"culture", "food"}
PlaceTypes == {"museum", "park"}
UpstreamErrorBodies == {"PERMISSION_DENIED", "INVALID_ARGUMENT"}

\* A list of n places as upstream orders it; s picks which place comes first.
PlaceList(n, s) ==
    [i \in 1..n |-> IF (i + s) % 3 = 0 THEN "p1"
                    ELSE IF (i + s) % 3 = 1 THEN "p2" ELSE "p3"]

\* PlacesResponse: places is optional.
PlacesResponses(maxLen) ==
    {[hasPlaces |-> FALSE, places |-> <<>>]} \cup
    {[hasPlaces |-> TRUE, places |-> PlaceList(n, s)] : n \in 0..maxLen, s \in 0..1}

NoResponse == [hasPlaces |-> FALSE, places |-> <<>>]
NoBody == [cityName |-> "Paris"]

\* What an awaited axios.post settles with.  "ok": a 2xx answer; "http": a
\* non-2xx answer, rejected with error.response.data = data; "network": no
\* answer at all, rejected with an error whose 'response' key is present
\* (holding undefined) or missing, depending on the axios build.
Outcomes(maxLen) ==
    {[kind |-> "ok", data |-> d, errorData |-> "", responseKey |-> FALSE] :
        d \in PlacesResponses(maxLen)} \cup
    {[kind |-> "http", data |-> NoResponse, errorData |-> e, responseKey |-> TRUE] :
        e \in UpstreamErrorBodies} \cup
    {[kind |-> "network", data |-> NoResponse, errorData |-> "", responseKey |-> k] :
        k \in BOOLEAN}

\* new Error('Google Places API key is not configured'): no 'response' key.
KeyError == [kind |-> "thrown", data |-> NoResponse, errorData |-> "", responseKey |-> FALSE]

\* Mutant of Slice: end taken as the last index instead of one past it.
SliceInclusiveEnd(arr, start, end) ==
    LET from == Min(start, Len(arr))
        to == Min(end + 1, Len(arr))
    IN  IF from >= to THEN <<>> ELSE SubSeq(arr, from + 1, to)

\* Array.prototype.slice(start, end) for 0 <= start, 0 <= end.
Slice(arr, start, end) ==
    LET from == Min(start, Len(arr))
        to == Min(end, Len(arr))
    IN  IF from >= to THEN <<>> ELSE SubSeq(arr, from + 1, to)

\* response.data.places || []
PlacesOrEmpty(data) == IF data.hasPlaces THEN data.places ELSE <<>>

\* The body of res.status(500).json({error, details}); JSON.stringify drops a
\* key whose value is undefined and writes an Error object as {}.
ErrorEnvelope(message, err) ==
    IF err.responseKey
    THEN IF err.kind = "http"
         THEN [error |-> message, details |-> err.errorData]
         ELSE [error |-> message]
    ELSE [error |-> message,
          details |-> IF err.kind = "thrown" THEN "{}" ELSE "AxiosError"]

Respond(status, json) == Append(responses, [status |-> status, json |-> json])

\* axios.post(url, {textQuery}, {headers}); key: the X-Goog-Api-Key header
\* has a value.
Post(textQuery) == Append(upstream, [textQuery |-> textQuery, key |-> apiKey])

Idle == pc \in {"idle", "done"}

\* An upstream answer is a success only for a request that carried a key.
Possible(o) == o.kind = "ok" => apiKey

\* Mutant of AttractionsQuery: the trip type is put into the query.
AttractionsQueryByTripType(b) == <<b.tripType, "attractions in", b.cityName>>

\* textQuery of the attractions call: `tourist attractions in ${cityName}`.
AttractionsQuery(b) == <<"tourist attractions in", b.cityName>>

\* textQuery of the restaurants call: `restaurants in ${cityName}`.
RestaurantsQuery(b) == <<"restaurants in", b.cityName>>

\* Mutant of recommendation: the two evening windows exchanged.
recommendationEveningsSwapped(cityName, attractionList, restaurantList) ==
    [city |-> cityName,
     day1 |-> [morning |-> [title |-> "Morning Exploration",
                            places |-> Slice(attractionList, 0, 2)],
               afternoon |-> [title |-> "Afternoon Activities",
                              places |-> Slice(attractionList, 2, 4)],
               evening |-> [title |-> "Evening Entertainment",
                            places |-> Slice(restaurantList, 2, 4)]],
     day2 |-> [morning |-> [title |-> "Morning Activities",
                            places |-> Slice(attractionList, 4, 6)],
               afternoon |-> [title |-> "Afternoon Exploration",
                              places |-> Slice(attractionList, 6, 8)],
               evening |-> [title |-> "Farewell Evening",
                            places |-> Slice(restaurantList, 0, 2)]]]

\* Mutant of recommendation: the day2.morning window starts one place early.
recommendationOverlapping(cityName, attractionList, restaurantList) ==
    [city |-> cityName,
     day1 |-> [morning |-> [title |-> "Morning Exploration",
                            places |-> Slice(attractionList, 0, 2)],
               afternoon |-> [title |-> "Afternoon Activities",
                              places |-> Slice(attractionList, 2, 4)],
               evening |-> [title |-> "Evening Entertainment",
                            places |-> Slice(restaurantList, 0, 2)]],
     day2 |-> [morning |-> [title |-> "Morning Activities",
                            places |-> Slice(attractionList, 3, 5)],
               afternoon |-> [title |-> "Afternoon Exploration",
                              places |-> Slice(attractionList, 6, 8)],
               evening |-> [title |-> "Farewell Evening",
                            places |-> Slice(restaurantList, 2, 4)]]]

recommendation(cityName, attractionList, restaurantList) ==
    [city |-> cityName,
     day1 |-> [morning |-> [title |-> "Morning Exploration",
                            places |-> Slice(attractionList, 0, 2)],
               afternoon |-> [title |-> "Afternoon Activities",
                              places |-> Slice(attractionList, 2, 4)],
               evening |-> [title |-> "Evening Entertainment",
                            places |-> Slice(restaurantList, 0, 2)]],
     day2 |-> [morning |-> [title |-> "Morning Activities",
                            places |-> Slice(attractionList, 4, 6)],
               afternoon |-> [title |-> "Afternoon Exploration",
                              places |-> Slice(attractionList, 6, 8)],
               evening |-> [title |-> "Farewell Evening",
                            places |-> Slice(restaurantList, 2, 4)]]]

\* POST /api/cities/search, up to the await.
CitiesSearch ==
    /\ Idle
    /\ route' = "cities"
    /\ settled' = <<>>
    /\ \E c \in CityNames :
        /\ body' = [cityName |-> c]
        /\ IF ~apiKey
           THEN /\ pc' = "done"
                /\ upstream' = <<>>
                /\ responses' = <<[status |-> 500,
                                   json |-> ErrorEnvelope("Failed to fetch cities", KeyError)]>>
           ELSE /\ pc' = "cities"
                /\ upstream' = <<[textQuery |-> <<"city of", c, "France">>, key |-> apiKey]>>
                /\ responses' = <<>>
    /\ attractionsResponse' = NoResponse
    /\ restaurantsResponse' = NoResponse
    /\ UNCHANGED <<apiKey, venueVars,
                   mapVars, resultsVars>>

\* POST /api/cities/search, after the await.
CitiesSearchSettled ==
    /\ pc = "cities"
    /\ \E o \in Outcomes(MaxRestaurants) :
        /\ Possible(o)
        /\ settled' = Append(settled, o.kind)
        /\ responses' =
             IF o.kind = "ok"
             THEN Respond(200, [places |-> PlacesOrEmpty(o.data)])
             ELSE Respond(500, ErrorEnvelope("Failed to fetch cities", o))
    /\ pc' = "done"
    /\ UNCHANGED <<apiKey, body, upstream, attractionsResponse, restaurantsResponse,
                   route, venueVars,
                   mapVars, resultsVars>>

\* POST /api/places/search, up to the await.
PlacesSearch ==
    /\ Idle
    /\ route' = "places"
    /\ settled' = <<>>
    /\ \E c \in CityNames, t \in PlaceTypes :
        /\ body' = [cityName |-> c, type |-> t]
        /\ IF ~apiKey
           THEN /\ pc' = "done"
                /\ upstream' = <<>>
                /\ responses' = <<[status |-> 500,
                                   json |-> ErrorEnvelope("Failed to fetch places", KeyError)]>>
           ELSE /\ pc' = "places"
                /\ upstream' = <<[textQuery |-> <<t, "in", c>>, key |-> apiKey]>>
                /\ responses' = <<>>
    /\ attractionsResponse' = NoResponse
    /\ restaurantsResponse' = NoResponse
    /\ UNCHANGED <<apiKey, venueVars,
                   mapVars, resultsVars>>

\* POST /api/places/search, after the await: the upstream data as it came.
PlacesSearchSettled ==
    /\ pc = "places"
    /\ \E o \in Outcomes(MaxRestaurants) :
        /\ Possible(o)
        /\ settled' = Append(settled, o.kind)
        /\ responses' =
             IF o.kind = "ok"
             THEN Respond(200, o.data)
             ELSE Respond(500, ErrorEnvelope("Failed to fetch places", o))
    /\ pc' = "done"
    /\ UNCHANGED <<apiKey, body, upstream, attractionsResponse, restaurantsResponse,
                   route, venueVars,
                   mapVars, resultsVars>>

\* POST /api/trips/recommend, up to the first await: no test of the key.
TripsRecommend ==
    /\ Idle
    /\ route' = "recommend"
    /\ settled' = <<>>
    /\ \E c \in CityNames, b \in Budgets, t \in TripTypes :
        /\ body' = [cityName |-> c, budget |-> b, tripType |-> t]
        /\ upstream' = <<[textQuery |-> AttractionsQuery(body'), key |-> apiKey]>>
    /\ pc' = "attractions"
    /\ responses' = <<>>
    /\ attractionsResponse' = NoResponse
    /\ restaurantsResponse' = NoResponse
    /\ UNCHANGED <<apiKey, venueVars,
                   mapVars, resultsVars>>

\* The attractions call settles: the restaurants call is made, or the catch
\* block answers.
AttractionsSettled ==
    /\ pc = "attractions"
    /\ \E o \in Outcomes(MaxAttractions) :
        /\ Possible(o)
        /\ settled' = Append(settled, o.kind)
        /\ IF o.kind = "ok"
           THEN /\ attractionsResponse' = o.data
                /\ upstream' = Post(RestaurantsQuery(body))
                /\ pc' = "restaurants"
                /\ UNCHANGED responses
           ELSE /\ responses' = Respond(500,
                       ErrorEnvelope("Failed to generate recommendations", o))
                /\ pc' = "done"
                /\ UNCHANGED <<attractionsResponse, upstream>>
    /\ UNCHANGED <<apiKey, body, restaurantsResponse, route, venueVars,
                   mapVars, resultsVars>>

\* Mutant of RestaurantsSettled: a failed restaurants call is swallowed and
\* the recommendation is sent without restaurants.
RestaurantsSettledTolerant ==
    /\ pc = "restaurants"
    /\ \E o \in Outcomes(MaxRestaurants) :
        /\ Possible(o)
        /\ settled' = Append(settled, o.kind)
        /\ restaurantsResponse' = o.data
        /\ responses' = Respond(200,
               recommendation(body.cityName,
                              PlacesOrEmpty(attractionsResponse),
                              PlacesOrEmpty(o.data)))
    /\ pc' = "done"
    /\ UNCHANGED <<apiKey, body, upstream, attractionsResponse, route, venueVars,
                   mapVars, resultsVars>>

\* The restaurants call settles: the recommendation is assembled and sent,
\* or the catch block answers.
RestaurantsSettled ==
    /\ pc = "restaurants"
    /\ \E o \in Outcomes(MaxRestaurants) :
        /\ Possible(o)
        /\ settled' = Append(settled, o.kind)
        /\ IF o.kind = "ok"
           THEN /\ restaurantsResponse' = o.data
                /\ responses' = Respond(200,
                       recommendation(body.cityName,
                                      PlacesOrEmpty(attractionsResponse),
                                      PlacesOrEmpty(o.data)))
           ELSE /\ responses' = Respond(500,
                       ErrorEnvelope("Failed to generate recommendations", o))
                /\ UNCHANGED restaurantsResponse
    /\ pc' = "done"
    /\ UNCHANGED <<apiKey, body, upstream, attractionsResponse, route, venueVars,
                   mapVars, resultsVars>>

(***************************************************************************)
(* The VenueStatus widget.                                                 *)
(***************************************************************************)
VenueIds == {"v1", "v2"}
Hours == 0..23
\* Math.random(): n / RandomDenominator for RandomSteps values of n spread
\* evenly from 0 to RandomDenominator - 1, the largest value below 1.
RandomSamples ==
    {(k * (RandomDenominator - 1)) \div (RandomSteps - 1) : k \in 0..(RandomSteps - 1)}

\* Mutant of WaitTimes: Math.round in the place of Math.floor.
WaitTimesRounded ==
    {(2 * n * 30 + RandomDenominator) \div (2 * RandomDenominator) : n \in RandomSamples}

\* Math.floor(Math.random() * 30)
WaitTimes == {(n * 30) \div RandomDenominator : n \in RandomSamples}
NoVenueData == [set |-> FALSE]
KeyMessage == "Google Places API key not configured"
HttpMessage == "Failed to fetch venue data"
\* err.message of a rejected fetch() and of a rejected response.json()
RejectMessages == {"TypeError: Failed to fetch", "SyntaxError: Unexpected token"}
\* data.currentOpeningHours?.openNow || false
OpenNow == BOOLEAN

InflightTotal == inflight["v1"] + inflight["v2"]

\* Mutant of CrowdLevel: the bounds of the first test taken as exclusive.
CrowdLevelExclusive(h) ==
    IF (h > 11 /\ h < 14) \/ (h > 18 /\ h < 20) THEN "High"
    ELSE IF h >= 9 /\ h <= 17 THEN "Moderate"
    ELSE "Low"

\* The crowd level of the hour h.
CrowdLevel(h) ==
    IF (h >= 11 /\ h <= 14) \/ (h >= 18 /\ h <= 20) THEN "High"
    ELSE IF h >= 9 /\ h <= 17 THEN "Moderate"
    ELSE "Low"

\* What the component returns: the skeleton, the error box with its
\* "Try again" button, or the status card.
Render ==
    IF loading THEN [view |-> "loading", retry |-> FALSE]
    ELSE IF error # "null" \/ ~venueData.set THEN [view |-> "error", retry |-> TRUE]
    ELSE [view |-> "ready", retry |-> FALSE]

\* Mutant of FetchVenueData: the fetch is issued without the test of the key.
FetchVenueDataUnchecked(v) ==
    /\ cycles < MaxCycles
    /\ InflightTotal < MaxInflight
    /\ cycles' = cycles + 1
    /\ loading' = TRUE
    /\ error' = "null"
    /\ inflight' = [inflight EXCEPT ![v] = @ + 1]
    /\ UNCHANGED <<venueData, hour, lateUpdate>>

\* fetchVenueData() up to its await, for the venue id v of its closure.
\* Without a key the throw, the catch and the finally run in the same call.
FetchVenueData(v) ==
    /\ cycles < MaxCycles
    /\ InflightTotal < MaxInflight
    /\ cycles' = cycles + 1
    /\ IF ~publicApiKey
       THEN /\ loading' = FALSE
            /\ error' = KeyMessage
            /\ UNCHANGED inflight
       ELSE /\ loading' = TRUE
            /\ error' = "null"
            /\ inflight' = [inflight EXCEPT ![v] = @ + 1]
    /\ UNCHANGED <<venueData, hour, lateUpdate>>

\* The effect runs after the first render.
Mount ==
    /\ phase = "created"
    /\ phase' = "mounted"
    /\ interval' = TRUE
    /\ FetchVenueData(venueId)
    /\ caller' = "effect"
    /\ UNCHANGED <<publicApiKey, venueId, gatewayVars,
                   mapVars, resultsVars>>

\* setInterval fires.
TimerTick ==
    /\ interval
    /\ FetchVenueData(venueId)
    /\ caller' = "interval"
    /\ UNCHANGED <<publicApiKey, venueId, phase, interval, gatewayVars,
                   mapVars, resultsVars>>

\* A click on "Try again".
Retry ==
    /\ phase = "mounted"
    /\ Render.retry
    /\ FetchVenueData(venueId)
    /\ caller' = "click"
    /\ UNCHANGED <<publicApiKey, venueId, phase, interval, gatewayVars,
                   mapVars, resultsVars>>

\* The venueId prop changes: the cleanup clears the interval, the effect runs
\* again with the new id.
VenueIdChange ==
    /\ phase = "mounted"
    /\ \E v \in VenueIds \ {venueId} :
        /\ venueId' = v
        /\ FetchVenueData(v)
    /\ interval' = TRUE
    /\ caller' = "effect"
    /\ UNCHANGED <<publicApiKey, phase, gatewayVars,
                   mapVars, resultsVars>>

\* Mutant of Unmount: the effect returns no cleanup.
UnmountWithoutCleanup ==
    /\ phase = "mounted"
    /\ phase' = "unmounted"
    /\ UNCHANGED <<publicApiKey, venueId, venueData, loading, error, interval,
                   inflight, cycles, caller, hour, lateUpdate, gatewayVars,
                   mapVars, resultsVars>>

\* The component unmounts: the cleanup clears the interval.
Unmount ==
    /\ phase = "mounted"
    /\ phase' = "unmounted"
    /\ interval' = FALSE
    /\ UNCHANGED <<publicApiKey, venueId, venueData, loading, error,
                   inflight, cycles, caller, hour, lateUpdate, gatewayVars,
                   mapVars, resultsVars>>

\* A pending fetch for v answers 2xx with a body that parses: the rest of
\* the try block and the finally.  Nothing between the two awaits touches
\* the state, so they are one step.
FetchSucceeded(v) ==
    /\ inflight[v] > 0
    /\ inflight' = [inflight EXCEPT ![v] = @ - 1]
    /\ \E w \in WaitTimes, open \in OpenNow :
        venueData' = [set |-> TRUE,
                      name |-> v,
                      crowdLevel |-> CrowdLevel(hour),
                      currentWaitTime |-> w,
                      isOperational |-> open]
    /\ loading' = FALSE
    /\ lateUpdate' = (lateUpdate \/ phase = "unmounted")
    /\ UNCHANGED <<publicApiKey, venueId, error, phase, interval, cycles, caller,
                   hour, gatewayVars,
                   mapVars, resultsVars>>

\* Mutant of FetchFailed: setLoading(false) only on the success path.
FetchFailedStillLoading(v) ==
    /\ inflight[v] > 0
    /\ inflight' = [inflight EXCEPT ![v] = @ - 1]
    /\ error' \in {HttpMessage} \cup RejectMessages
    /\ lateUpdate' = (lateUpdate \/ phase = "unmounted")
    /\ UNCHANGED <<publicApiKey, venueId, venueData, loading, phase, interval,
                   cycles, caller, hour, gatewayVars,
                   mapVars, resultsVars>>

\* Mutant of FetchFailed: the catch block calls fetchVenueData again.
FetchFailedThenRetry(v) ==
    /\ inflight[v] > 0
    /\ cycles < MaxCycles
    /\ cycles' = cycles + 1
    /\ loading' = TRUE
    /\ error' = "null"
    /\ lateUpdate' = (lateUpdate \/ phase = "unmounted")
    /\ UNCHANGED <<publicApiKey, venueId, venueData, inflight, phase, interval,
                   caller, hour, gatewayVars,
                   mapVars, resultsVars>>

\* A pending fetch for v answers non-2xx, or fetch() or response.json()
\* rejects: the catch block and the finally.
FetchFailed(v) ==
    /\ inflight[v] > 0
    /\ inflight' = [inflight EXCEPT ![v] = @ - 1]
    /\ error' \in {HttpMessage} \cup RejectMessages
    /\ loading' = FALSE
    /\ lateUpdate' = (lateUpdate \/ phase = "unmounted")
    /\ UNCHANGED <<publicApiKey, venueId, venueData, phase, interval, cycles,
                   caller, hour, gatewayVars,
                   mapVars, resultsVars>>

\* The wall clock passes into the next hour.
ClockAdvance ==
    /\ hour' = (hour + 1) % 24
    /\ UNCHANGED <<publicApiKey, venueId, venueData, loading, error, phase,
                   interval, inflight, cycles, caller, lateUpdate, gatewayVars,
                   mapVars, resultsVars>>

(***************************************************************************)
(* The InteractiveMap widget.                                              *)
(***************************************************************************)
InitialZoom == 13     \* zoom the map is constructed with
ZoomCap == 16         \* the markers effect does not want to be closer

PlaceIds == {"g1", "g2"}

\* The points a parent passes: id stands for id, title and position, and a
\* placeId of "" for a point without one.
MapPoints ==
    {[id |-> "a", placeId |-> "g1"],
     [id |-> "b", placeId |-> "g1"],
     [id |-> "c", placeId |-> ""]}

RECURSIVE SeqsUpTo(_, _)
SeqsUpTo(S, n) ==
    IF n = 0 THEN {<<>>}
    ELSE LET shorter == SeqsUpTo(S, n - 1)
         IN  shorter \cup {Append(s, x) : s \in {t \in shorter : Len(t) = n - 1}, x \in S}

PointLists == SeqsUpTo(MapPoints, MaxPoints)

\* placeDetails[placeId] of an id that was never stored is undefined.
NoDetails == [known |-> FALSE]

\* What response.json() of the place details request gives.
PlaceDetailsData ==
    {[known |-> TRUE, formattedAddress |-> "address", photos |-> p, rating |-> r] :
        p \in BOOLEAN, r \in BOOLEAN}

NoPopup == [open |-> FALSE]

\* The zoom a fitBounds call ends at: the closest the map offers for bounds
\* of one position, anything for bounds of several.
FitZoomLevels(pts) ==
    IF Cardinality({pts[i].id : i \in 1..Len(pts)}) = 1 THEN {21} ELSE {3, 17}

MarkerIds(ms) == {ms[i].id : i \in 1..Len(ms)}

\* markers.forEach(marker => marker.setMap(null))
Cleared(attached, ms) == attached \ MarkerIds(ms)

\* The markers effect, map being set. Every new marker gets a click listener
\* closing over highlightMarker of the render the effect belongs to, that is
\* over this render's infoWindow and placeDetails. fitBounds applies its
\* viewport at once or later; getZoom() right after it reads the new zoom in
\* the first case and the zoom before the call in the second.
MarkersEffect(pts, iw) ==
    /\ markers' = [i \in 1..Len(pts) |->
                     [id |-> created + i, point |-> pts[i],
                      infoWindow |-> iw, placeDetails |-> placeDetails]]
    /\ onMap' = Cleared(onMap, markers) \cup MarkerIds(markers')
    /\ created' = created + Len(pts)
    /\ fresh' = {}
    /\ IF Len(pts) > 0
       THEN /\ fitted' = TRUE
            /\ \E f \in FitZoomLevels(pts) :
                 \/ /\ zoom' = IF f > ZoomCap THEN ZoomCap ELSE f
                    /\ pendingFit' = 0
                 \/ /\ zoom' = IF zoom > ZoomCap THEN ZoomCap ELSE zoom
                    /\ pendingFit' = f
       ELSE /\ fitted' = FALSE
            /\ UNCHANGED <<zoom, pendingFit>>

\* loader.load() resolves. setMap and setInfoWindow are called after an await:
\* a React that batches them renders once with both set, one that does not
\* renders first with the map alone, and the markers effect of that render
\* closes over an infoWindow of null.
MapLoaded ==
    /\ loader = "pending"
    /\ loader' = "resolved"
    /\ IF mapRef
       THEN /\ map' = TRUE
            /\ infoWindow' = TRUE
            /\ \E batched \in BOOLEAN : MarkersEffect(points, batched)
            /\ UNCHANGED <<mapRef, points, placeDetails, detailFetches, issued, popup>>
       ELSE UNCHANGED <<mapRef, map, infoWindow, points, markers, onMap, created,
                        placeDetails, detailFetches, issued, fresh, popup, zoom,
                        pendingFit, fitted>>
    /\ UNCHANGED <<gatewayVars, venueVars, resultsVars>>

\* loader.load() rejects: the catch logs and nothing is set.
LoadFailed ==
    /\ loader = "pending"
    /\ loader' = "rejected"
    /\ UNCHANGED <<mapRef, map, infoWindow, points, markers, onMap, created,
                   placeDetails, detailFetches, issued, fresh, popup, zoom,
                   pendingFit, fitted>>
    /\ UNCHANGED <<gatewayVars, venueVars, resultsVars>>

\* The parent renders the widget with a new points array. The effect
\* compares arrays by identity, so equal contents run it as well.
PointsChange ==
    /\ mapRef
    /\ \E pts \in PointLists :
         /\ created + Len(pts) <= MaxCreated
         /\ points' = pts
         /\ IF map
            THEN MarkersEffect(pts, infoWindow)
            ELSE UNCHANGED <<markers, onMap, created, fresh, zoom, pendingFit, fitted>>
    /\ UNCHANGED <<loader, mapRef, map, infoWindow, placeDetails, detailFetches,
                   issued, popup>>
    /\ UNCHANGED <<gatewayVars, venueVars, resultsVars>>

\* The HTML highlightMarker builds.
Content(point, details) ==
    LET place == IF point.placeId # "" THEN details[point.placeId] ELSE NoDetails
    IN  [title |-> point.id,
         address |-> IF place.known THEN place.formattedAddress ELSE "",
         photo |-> place.known /\ place.photos,
         rating |-> place.known /\ place.rating]

\* infoWindow.setContent(content); infoWindow.open(map, marker)
Opened(m, fetched, data) ==
    [open |-> TRUE, marker |-> m.id, fetched |-> fetched, data |-> data,
     content |-> Content(m.point, m.placeDetails)]

RECURSIVE SumOver(_, _)
SumOver(f, S) ==
    IF S = {} THEN 0
    ELSE LET x == CHOOSE y \in S : TRUE IN f[x] + SumOver(f, S \ {x})

IssuedTotal == SumOver(issued, PlaceIds)

\* A click on an attached marker calls the highlightMarker its listener
\* closed over, up to the await of fetchPlaceDetails.
MarkerClick ==
    /\ mapRef
    /\ \E i \in 1..Len(markers) :
         LET m == markers[i]
             placeId == m.point.placeId
         IN  /\ m.id \in onMap
             /\ IF ~m.infoWindow
                THEN UNCHANGED <<detailFetches, issued, popup>>
                ELSE IF placeId # "" /\ ~m.placeDetails[placeId].known
                THEN /\ IssuedTotal < MaxDetailFetches
                     /\ detailFetches' = Append(detailFetches, m)
                     /\ issued' = [issued EXCEPT ![placeId] = @ + 1]
                     /\ UNCHANGED popup
                ELSE /\ popup' = Opened(m, "none", NoDetails)
                     /\ UNCHANGED <<detailFetches, issued>>
    /\ UNCHANGED <<loader, mapRef, map, infoWindow, points, markers, onMap,
                   created, placeDetails, fresh, zoom, pendingFit, fitted>>
    /\ UNCHANGED <<gatewayVars, venueVars, resultsVars>>

Without(s, k) == [i \in 1..(Len(s) - 1) |-> IF i < k THEN s[i] ELSE s[i + 1]]

\* The request of fetchPlaceDetails answers ok: the details are stored and
\* highlightMarker goes on after its await.
DetailsFetched ==
    /\ \E k \in 1..Len(detailFetches), data \in PlaceDetailsData :
         LET m == detailFetches[k]
         IN  /\ detailFetches' = Without(detailFetches, k)
             /\ placeDetails' = [placeDetails EXCEPT ![m.point.placeId] = data]
             /\ fresh' = fresh \cup {m.point.placeId}
             /\ popup' = Opened(m, "ok", data)
    /\ UNCHANGED <<loader, mapRef, map, infoWindow, points, markers, onMap,
                   created, issued, zoom, pendingFit, fitted>>
    /\ UNCHANGED <<gatewayVars, venueVars, resultsVars>>

\* The request fails or answers with an error status: the catch logs, and
\* highlightMarker goes on after its await.
DetailsFailed ==
    /\ \E k \in 1..Len(detailFetches) :
         LET m == detailFetches[k]
         IN  /\ detailFetches' = Without(detailFetches, k)
             /\ popup' = Opened(m, "failed", NoDetails)
    /\ UNCHANGED <<loader, mapRef, map, infoWindow, points, markers, onMap,
                   created, placeDetails, issued, fresh, zoom, pendingFit, fitted>>
    /\ UNCHANGED <<gatewayVars, venueVars, resultsVars>>

\* The map applies the viewport of a fitBounds call it had deferred.
ViewportApplied ==
    /\ pendingFit # 0
    /\ zoom' = pendingFit
    /\ pendingFit' = 0
    /\ UNCHANGED <<loader, mapRef, map, infoWindow, points, markers, onMap,
                   created, placeDetails, detailFetches, issued, fresh, popup,
                   fitted>>
    /\ UNCHANGED <<gatewayVars, venueVars, resultsVars>>

\* The widget leaves the page: its element is gone, so mapRef.current is null.
UnmountMap ==
    /\ mapRef
    /\ mapRef' = FALSE
    /\ UNCHANGED <<loader, map, infoWindow, points, markers, onMap, created,
                   placeDetails, detailFetches, issued, fresh, popup, zoom,
                   pendingFit, fitted>>
    /\ UNCHANGED <<gatewayVars, venueVars, resultsVars>>

InitMapVars ==
    /\ loader = "pending"
    /\ mapRef = TRUE
    /\ map = FALSE
    /\ infoWindow = FALSE
    /\ points = <<>>
    /\ markers = <<>>
    /\ onMap = {}
    /\ created = 0
    /\ placeDetails = [p \in PlaceIds |-> NoDetails]
    /\ detailFetches = <<>>
    /\ issued = [p \in PlaceIds |-> 0]
    /\ fresh = {}
    /\ popup = NoPopup
    /\ zoom = InitialZoom
    /\ pendingFit = 0
    /\ fitted = FALSE

(***************************************************************************)
(* The results views.                                                      *)
(***************************************************************************)
Variants == {"page", "part_000", "enhanced"}

\* JSON values. A recommendation is an object with day1 and day2; a day has
\* the slots morning, afternoon and evening; a slot has places.
Null == [type |-> "null"]
Literals == {Null, [type |-> "false"], [type |-> "number", value |-> 0]}
Missing == [present |-> FALSE]

Place(k, j) == [id |-> <<k, j>>, name |-> "place"]

ArraySlot(k, n) ==
    [present |-> TRUE,
     places |-> [kind |-> "array", items |-> [j \in 1..n |-> Place(k, j)]]]

\* A slot that is missing, one without places, one whose places is a string.
OddSlots ==
    {Missing,
     [present |-> TRUE, places |-> [kind |-> "undefined"]],
     [present |-> TRUE, places |-> [kind |-> "string"]]}

Day(slots, first) ==
    [present |-> TRUE, morning |-> slots[first], afternoon |-> slots[first + 1],
     evening |-> slots[first + 2]]

DocOf(slots) == [type |-> "object", day1 |-> Day(slots, 1), day2 |-> Day(slots, 4)]

SizedDocs == {DocOf([k \in 1..6 |-> ArraySlot(k, f[k])]) : f \in [1..6 -> 0..MaxSlotPlaces]}

OddDocs ==
    {DocOf([k \in 1..6 |-> IF k = s THEN o ELSE ArraySlot(k, 1)]) :
        s \in 1..6, o \in OddSlots}

FullDay(first) == Day([k \in 1..6 |-> ArraySlot(k, 1)], first)

DaylessDocs ==
    {[type |-> "object", day1 |-> Missing, day2 |-> Missing],
     [type |-> "object", day1 |-> FullDay(1), day2 |-> Missing],
     [type |-> "object", day1 |-> Missing, day2 |-> FullDay(4)]}

EmptyObject == [type |-> "object", day1 |-> Missing, day2 |-> Missing]

\* The values a view may find serialised in the storage. The views that do
\* not flatten the recommendation are followed for fewer documents.
Documents(v) ==
    Literals \cup DaylessDocs
        \cup (IF v = "enhanced"
              THEN OddDocs \cup SizedDocs
              ELSE {DocOf([k \in 1..6 |-> ArraySlot(k, 1)])})

\* A text is a sequence of tokens: punctuation and garbage, or the token that
\* is the whole serialisation of a value.
Tok(t) == [tok |-> t]
Punctuation == {Tok("{"), Tok("}"), Tok("x")}
JSONstringify(value) == <<[tok |-> "value", value |-> value]>>

Texts(v) ==
    {<<>>}
        \cup {<<a>> : a \in Punctuation}
        \cup {<<a, b>> : a \in Punctuation, b \in Punctuation}
        \cup {JSONstringify(d) : d \in Documents(v)}
        \cup {JSONstringify(d) \o <<a>> : d \in Literals, a \in Punctuation}

\* localStorage.getItem: null when the key is absent.
StoredValues(v) == {Missing} \cup {[present |-> TRUE, text |-> t] : t \in Texts(v)}

\* JSON.parse: one value, or the braces of the empty object; a SyntaxError
\* for every other text.
JSONparse(text) ==
    IF Len(text) = 1 /\ text[1].tok = "value"
    THEN [ok |-> TRUE, value |-> text[1].value]
    ELSE IF Len(text) = 2 /\ text[1].tok = "{" /\ text[2].tok = "}"
    THEN [ok |-> TRUE, value |-> EmptyObject]
    ELSE [ok |-> FALSE]

\* null, false and 0 are falsy, objects are truthy.
Truthy(value) == value.type = "object"

\* slot?.places || []
SlotPlaces(slot) ==
    IF slot.present /\ slot.places.kind # "undefined"
    THEN slot.places
    ELSE [kind |-> "array", items |-> <<>>]

TimeOfSlot(timeSlot) ==
    IF timeSlot = "morning" THEN "09:00"
    ELSE IF timeSlot = "afternoon" THEN "14:00" ELSE "19:00"

transformPlaces(places, timeSlot) ==
    IF places.kind # "array" THEN <<>>
    ELSE [i \in 1..Len(places.items) |->
            [id |-> places.items[i].id,
             title |-> places.items[i].name,
             time |-> TimeOfSlot(timeSlot),
             duration |-> 60,
             type |-> "activity",
             cost |-> 0]]

\* All mornings first, then the afternoons, then the evenings.
transformRecommendationToItineraryByTimeSlot(rec) ==
    IF ~Truthy(rec) \/ ~rec.day1.present \/ ~rec.day2.present THEN <<>>
    ELSE transformPlaces(SlotPlaces(rec.day1.morning), "morning")
         \o transformPlaces(SlotPlaces(rec.day2.morning), "morning")
         \o transformPlaces(SlotPlaces(rec.day1.afternoon), "afternoon")
         \o transformPlaces(SlotPlaces(rec.day2.afternoon), "afternoon")
         \o transformPlaces(SlotPlaces(rec.day1.evening), "evening")
         \o transformPlaces(SlotPlaces(rec.day2.evening), "evening")

transformRecommendationToItinerary(rec) ==
    IF ~Truthy(rec) \/ ~rec.day1.present \/ ~rec.day2.present THEN <<>>
    ELSE transformPlaces(SlotPlaces(rec.day1.morning), "morning")
         \o transformPlaces(SlotPlaces(rec.day1.afternoon), "afternoon")
         \o transformPlaces(SlotPlaces(rec.day1.evening), "evening")
         \o transformPlaces(SlotPlaces(rec.day2.morning), "morning")
         \o transformPlaces(SlotPlaces(rec.day2.afternoon), "afternoon")
         \o transformPlaces(SlotPlaces(rec.day2.evening), "evening")

\* The mount effect without its try: the SyntaxError leaves the effect.
MountEffectUncaught(v, item) ==
    IF item.present /\ item.text # <<>>
    THEN LET parsed == JSONparse(item.text)
         IN  IF parsed.ok
             THEN [recommendation |-> parsed.value, error |-> "null",
                   editedItinerary |->
                       IF v = "enhanced"
                       THEN transformRecommendationToItinerary(parsed.value)
                       ELSE <<>>,
                   escaped |-> FALSE]
             ELSE [recommendation |-> Null, error |-> "null",
                   editedItinerary |-> <<>>, escaped |-> TRUE]
    ELSE [recommendation |-> Null, error |-> "No trip recommendations found",
          editedItinerary |-> <<>>, escaped |-> FALSE]

\* What the mount effect of a view leaves in its state. An absent item and
\* the empty text are both falsy.
MountEffect(v, item) ==
    IF item.present /\ item.text # <<>>
    THEN LET parsed == JSONparse(item.text)
         IN  IF parsed.ok
             THEN [recommendation |-> parsed.value, error |-> "null",
                   editedItinerary |->
                       IF v = "enhanced"
                       THEN transformRecommendationToItinerary(parsed.value)
                       ELSE <<>>,
                   escaped |-> FALSE]
             ELSE [recommendation |-> Null,
                   error |-> "Failed to load trip recommendations",
                   editedItinerary |-> <<>>, escaped |-> FALSE]
    ELSE [recommendation |-> Null, error |-> "No trip recommendations found",
          editedItinerary |-> <<>>, escaped |-> FALSE]

\* What Results returns: the error view with its button back to the start,
\* the spinner, or the itinerary with its button.
ResultsRender ==
    LET view == IF resultsError # "null" THEN "error"
                ELSE IF ~Truthy(shownRecommendation) THEN "spinner" ELSE "loaded"
    IN  [view |-> view, back |-> view # "spinner"]

\* A photo reference is a sequence of characters: "/" and pieces without it.
Segments == {<<"places">>, <<"photos">>, <<"x">>}

RECURSIVE Join(_)
Join(segs) ==
    IF Len(segs) = 1 THEN segs[1] ELSE segs[1] \o <<"/">> \o Join(Tail(segs))

PhotoReferences == {Join(segs) : segs \in SeqsUpTo(Segments, MaxSegments) \ {<<>>}}

RECURSIVE SplitFrom(_, _, _)
SplitFrom(rest, current, parts) ==
    IF rest = <<>> THEN Append(parts, current)
    ELSE IF Head(rest) = "/"
    THEN SplitFrom(Tail(rest), <<>>, Append(parts, current))
    ELSE SplitFrom(Tail(rest), Append(current, Head(rest)), parts)

\* photoReference.split('/')
Split(ref) == SplitFrom(ref, <<>>, <<>>)

\* parts[i] of JavaScript, i counted from 0: undefined beyond the end.
Part(parts, i) ==
    IF i + 1 <= Len(parts)
    THEN [defined |-> TRUE, segment |-> parts[i + 1]]
    ELSE [defined |-> FALSE]

NoUrl == [empty |-> TRUE]

\* getPhotoUrl of unnamed/part_000.
getPhotoUrl(ref, key) ==
    IF ~key THEN NoUrl
    ELSE LET parts == Split(ref)
         IN  IF Len(parts) < 3 THEN NoUrl
             ELSE [empty |-> FALSE, api |-> "v1",
                   placeId |-> Part(parts, 1), photoId |-> Part(parts, 3)]

\* getPhotoUrl of results/page.tsx.
getPhotoUrlByPrefix(ref, key) ==
    IF ref = <<>> THEN NoUrl
    ELSE IF ~key THEN NoUrl
    ELSE IF Len(ref) >= 2 /\ ref[1] = "places" /\ ref[2] = "/"
    THEN [empty |-> FALSE, api |-> "v1", name |-> ref]
    ELSE [empty |-> FALSE, api |-> "legacy", photo_reference |-> ref]

\* The places the itinerary view shows a card for.
ShownPlaces(rec) ==
    IF ~rec.day1.present \/ ~rec.day2.present THEN <<>>
    ELSE transformRecommendationToItinerary(rec)

\* The mount effect of Results.
MountResults ==
    /\ resultsPhase = "created"
    /\ resultsPhase' = "mounted"
    /\ LET after == MountEffect(variant, stored)
       IN  /\ shownRecommendation' = after.recommendation
           /\ resultsError' = after.error
           /\ editedItinerary' = after.editedItinerary
           /\ escaped' = after.escaped
    /\ UNCHANGED <<variant, stored, photoReference, photoUrl>>
    /\ UNCHANGED <<gatewayVars, venueVars, mapVars>>

\* A PlaceCard of the itinerary renders the image of a place whose first
\* photo has a name.
RenderPlaceCard ==
    /\ resultsPhase = "mounted"
    /\ variant \in {"page", "part_000"}
    /\ ResultsRender.view = "loaded"
    /\ ShownPlaces(shownRecommendation) # <<>>
    /\ \E ref \in PhotoReferences \ {<<>>} :
         /\ photoReference' = ref
         /\ photoUrl' = IF variant = "part_000"
                        THEN getPhotoUrl(ref, publicApiKey)
                        ELSE getPhotoUrlByPrefix(ref, publicApiKey)
    /\ UNCHANGED <<variant, stored, shownRecommendation, resultsError, editedItinerary,
                   resultsPhase, escaped>>
    /\ UNCHANGED <<gatewayVars, venueVars, mapVars>>

\* The button of the error view and of the itinerary: router.push('/').
ReturnToStart ==
    /\ resultsPhase = "mounted"
    /\ ResultsRender.back
    /\ resultsPhase' = "left"
    /\ UNCHANGED <<variant, stored, shownRecommendation, resultsError, editedItinerary,
                   escaped, photoReference, photoUrl>>
    /\ UNCHANGED <<gatewayVars, venueVars, mapVars>>

InitResultsVars ==
    /\ variant = "page"
    /\ stored = Missing
    /\ shownRecommendation = Null
    /\ resultsError = "null"
    /\ editedItinerary = <<>>
    /\ resultsPhase = "created"
    /\ escaped = FALSE
    /\ photoReference = <<>>
    /\ photoUrl = NoUrl

InitGatewayVars ==
    /\ apiKey = TRUE
    /\ pc = "idle"
    /\ body = NoBody
    /\ upstream = <<>>
    /\ attractionsResponse = NoResponse
    /\ restaurantsResponse = NoResponse
    /\ responses = <<>>
    /\ route = "none"
    /\ settled = <<>>

InitVenueVars ==
    /\ publicApiKey = TRUE
    /\ venueId = "v1"
    /\ venueData = NoVenueData
    /\ loading = TRUE
    /\ error = "null"
    /\ phase = "created"
    /\ interval = FALSE
    /\ inflight = [v \in VenueIds |-> 0]
    /\ cycles = 0
    /\ caller = "none"
    /\ hour = 0
    /\ lateUpdate = FALSE

InitVenue ==
    /\ publicApiKey \in BOOLEAN
    /\ venueId \in VenueIds
    /\ venueData = NoVenueData
    /\ loading = TRUE
    /\ error = "null"
    /\ phase = "created"
    /\ interval = FALSE
    /\ inflight = [v \in VenueIds |-> 0]
    /\ cycles = 0
    /\ caller = "none"
    /\ hour \in Hours
    /\ lateUpdate = FALSE
    /\ InitGatewayVars
    /\ InitMapVars
    /\ InitResultsVars

NextVenue ==
    \/ Mount
    \/ TimerTick
    \/ Retry
    \/ VenueIdChange
    \/ Unmount
    \/ \E v \in VenueIds : FetchSucceeded(v)
    \/ \E v \in VenueIds : FetchFailed(v)
    \/ ClockAdvance

SpecVenue == InitVenue /\ [][NextVenue]_vars

InitGateway ==
    /\ apiKey \in BOOLEAN
    /\ pc = "idle"
    /\ body = NoBody
    /\ upstream = <<>>
    /\ attractionsResponse = NoResponse
    /\ restaurantsResponse = NoResponse
    /\ responses = <<>>
    /\ route = "none"
    /\ settled = <<>>
    /\ InitVenueVars
    /\ InitMapVars
    /\ InitResultsVars

NextGateway ==
    \/ CitiesSearch
    \/ CitiesSearchSettled
    \/ PlacesSearch
    \/ PlacesSearchSettled
    \/ TripsRecommend
    \/ AttractionsSettled
    \/ RestaurantsSettled

SpecGateway == InitGateway /\ [][NextGateway]_vars

InitMap ==
    /\ loader = "pending"
    /\ mapRef = TRUE
    /\ map = FALSE
    /\ infoWindow = FALSE
    /\ points \in PointLists
    /\ markers = <<>>
    /\ onMap = {}
    /\ created = 0
    /\ placeDetails = [p \in PlaceIds |-> NoDetails]
    /\ detailFetches = <<>>
    /\ issued = [p \in PlaceIds |-> 0]
    /\ fresh = {}
    /\ popup = NoPopup
    /\ zoom = InitialZoom
    /\ pendingFit = 0
    /\ fitted = FALSE
    /\ InitGatewayVars
    /\ InitVenueVars
    /\ InitResultsVars

NextMap ==
    \/ MapLoaded
    \/ LoadFailed
    \/ PointsChange
    \/ MarkerClick
    \/ DetailsFetched
    \/ DetailsFailed
    \/ ViewportApplied
    \/ UnmountMap

SpecMap == InitMap /\ [][NextMap]_vars

InitResults ==
    /\ variant \in Variants
    /\ stored \in StoredValues(variant)
    /\ shownRecommendation = Null
    /\ resultsError = "null"
    /\ editedItinerary = <<>>
    /\ resultsPhase = "created"
    /\ escaped = FALSE
    /\ photoReference = <<>>
    /\ photoUrl = NoUrl
    /\ publicApiKey \in BOOLEAN
    /\ venueId = "v1"
    /\ venueData = NoVenueData
    /\ loading = TRUE
    /\ error = "null"
    /\ phase = "created"
    /\ interval = FALSE
    /\ inflight = [v \in VenueIds |-> 0]
    /\ cycles = 0
    /\ caller = "none"
    /\ hour = 0
    /\ lateUpdate = FALSE
    /\ InitGatewayVars
    /\ InitMapVars

NextResults ==
    \/ MountResults
    \/ RenderPlaceCard
    \/ ReturnToStart

SpecResults == InitResults /\ [][NextResults]_vars

(***************************************************************************)
(* Claims about the gateway, checked under SpecGateway.                    *)
(***************************************************************************)
\* The recommend handler has sent its recommendation.
RecommendationSent ==
    /\ route = "recommend"
    /\ pc = "done"
    /\ Len(responses) = 1
    /\ responses[1].status = 200

attractions == PlacesOrEmpty(attractionsResponse)
restaurants == PlacesOrEmpty(restaurantsResponse)
Sent == responses[1].json
SizeAt(len, k) == Min(2, Max(0, len - k))

\* C2: the four attraction slots hold min(2, max(0, A-k)) places for
\* k = 0, 2, 4, 6 and the two restaurant slots min(2, max(0, R-k)) places for
\* k = 0, 2, A and R being the lengths of the lists upstream returned.
C2_SlotSizes ==
    RecommendationSent =>
        /\ Len(Sent.day1.morning.places) = SizeAt(Len(attractions), 0)
        /\ Len(Sent.day1.afternoon.places) = SizeAt(Len(attractions), 2)
        /\ Len(Sent.day2.morning.places) = SizeAt(Len(attractions), 4)
        /\ Len(Sent.day2.afternoon.places) = SizeAt(Len(attractions), 6)
        /\ Len(Sent.day1.evening.places) = SizeAt(Len(restaurants), 0)
        /\ Len(Sent.day2.evening.places) = SizeAt(Len(restaurants), 2)

C2_Witness ==
    /\ RecommendationSent
    /\ Len(attractions) = 7
    /\ Len(restaurants) = 3
    /\ Len(Sent.day2.afternoon.places) = 1
    /\ Len(Sent.day2.evening.places) = 1

ThreeAndOne ==
    /\ RecommendationSent
    /\ Len(attractions) = 3
    /\ Len(restaurants) = 1

\* C3 as stated: with 3 attractions and 1 restaurant, day1.morning has 2
\* places, day1.afternoon 1, day1.evening 0 and every later slot is empty.
C3_AsClaimed ==
    ThreeAndOne =>
        /\ Len(Sent.day1.morning.places) = 2
        /\ Len(Sent.day1.afternoon.places) = 1
        /\ Len(Sent.day1.evening.places) = 0
        /\ Len(Sent.day2.morning.places) = 0
        /\ Len(Sent.day2.afternoon.places) = 0
        /\ Len(Sent.day2.evening.places) = 0

\* C3 amended: with 3 attractions and 1 restaurant, day1.morning has 2 places,
\* day1.afternoon 1, day1.evening 1 (the only restaurant) and every later
\* slot is empty.
C3_ThreeAndOne ==
    ThreeAndOne =>
        /\ Len(Sent.day1.morning.places) = 2
        /\ Len(Sent.day1.afternoon.places) = 1
        /\ Sent.day1.evening.places = <<restaurants[1]>>
        /\ Len(Sent.day2.morning.places) = 0
        /\ Len(Sent.day2.afternoon.places) = 0
        /\ Len(Sent.day2.evening.places) = 0

C3_Witness == ThreeAndOne /\ Len(Sent.day1.evening.places) = 1

\* The source positions (1-based) a slot at offset k holds when it has n places.
Positions(k, n) == {k + i : i \in 1..n}

\* slot is the part of src at source positions [k, k+2), in source order.
IsWindow(slot, src, k) ==
    /\ Len(slot) = Cardinality({p \in {k + 1, k + 2} : p <= Len(src)})
    /\ \A i \in 1..Len(slot) : slot[i] = src[k + i]

AttractionSlots ==
    <<Sent.day1.morning.places, Sent.day1.afternoon.places,
      Sent.day2.morning.places, Sent.day2.afternoon.places>>
RestaurantSlots == <<Sent.day1.evening.places, Sent.day2.evening.places>>

\* The slots of one source list: windows, pairwise on different positions,
\* and filled front to back.
Partitioned(slots, src) ==
    /\ \A j \in 1..Len(slots) : IsWindow(slots[j], src, 2 * (j - 1))
    /\ \A j, l \in 1..Len(slots) :
         j # l => Positions(2 * (j - 1), Len(slots[j]))
                    \cap Positions(2 * (l - 1), Len(slots[l])) = {}
    /\ \A j \in 2..Len(slots) : slots[j] # <<>> => Len(slots[j - 1]) = 2

\* C4: the attraction slots are the attractions at positions [0,2), [2,4),
\* [4,6), [6,8) and the evening slots the restaurants at [0,2), [2,4), in
\* source order; no position is in two slots; a slot is non-empty only if
\* every earlier slot of the same list is full.
C4_DisjointWindows ==
    RecommendationSent =>
        /\ Partitioned(AttractionSlots, attractions)
        /\ Partitioned(RestaurantSlots, restaurants)

C4_Witness ==
    /\ RecommendationSent
    /\ Len(attractions) = 5
    /\ Len(restaurants) = 4
    /\ Sent.day2.morning.places = <<attractions[5]>>
    /\ Sent.day2.afternoon.places = <<>>
    /\ Sent.day2.evening.places = <<restaurants[3], restaurants[4]>>

\* C5 as stated: while the credential is absent no upstream request has been
\* made, and a finished request was answered with the error envelope.
C5_CredentialChecked ==
    ~apiKey =>
        /\ upstream = <<>>
        /\ pc = "done" =>
             /\ Len(responses) = 1
             /\ responses[1].status = 500
             /\ "error" \in DOMAIN responses[1].json

FixedMessage ==
    [cities |-> "Failed to fetch cities",
     places |-> "Failed to fetch places",
     recommend |-> "Failed to generate recommendations"]

\* An upstream call of the current request came back with a non-success status.
UpstreamFailed == \E i \in 1..Len(settled) : settled[i] = "http"

\* C6: when an upstream call fails with a non-success status, the handler
\* sends exactly one response: status 500, body {error, details} with the
\* endpoint's fixed message; recommend never sends a partial recommendation.
C6_ErrorEnvelope ==
    /\ Len(responses) <= 1
    /\ UpstreamFailed =>
        /\ pc = "done"
        /\ Len(responses) = 1
        /\ responses[1].status = 500
        /\ DOMAIN responses[1].json = {"error", "details"}
        /\ responses[1].json.error = FixedMessage[route]
        /\ responses[1].json.details \in UpstreamErrorBodies

\* The restaurants call failed after the attractions call had succeeded.
C6_Witness ==
    /\ route = "recommend"
    /\ settled = <<"ok", "http">>
    /\ Len(attractions) = 3
    /\ responses[1].status = 500

(***************************************************************************)
(* Claims about the VenueStatus widget, checked under SpecVenue.           *)
(***************************************************************************)
HighHours == (11..14) \cup (18..20)

\* C1: a successful fetch at wall-clock hour h sets the crowd level to High
\* iff h is in 11..14 or 18..20, to Moderate iff h is in 9..17 and not High,
\* to Low otherwise, whatever the venue id and the fetched data.
C1_CrowdLevelByHour ==
    [][\A v \in VenueIds :
        FetchSucceeded(v) =>
            /\ venueData'.crowdLevel = "High" <=> hour \in HighHours
            /\ venueData'.crowdLevel = "Moderate" <=>
                 (hour \in 9..17 /\ hour \notin HighHours)
            /\ venueData'.crowdLevel = "Low" <=>
                 (hour \notin 9..17 /\ hour \notin HighHours)]_vars

\* A fetch for venue v2 has just succeeded at 16 o'clock.
C1_Witness ==
    /\ venueData.set
    /\ venueData.name = "v2"
    /\ hour = 16
    /\ venueData.crowdLevel = "Moderate"
    /\ ~loading
    /\ InflightTotal = 0

\* C7: every fetch cycle that issues a fetch enters loading with the error
\* cleared; when a fetch settles (at once when the key is missing) the widget
\* is out of loading and shows exactly one of ready and error; a mounted
\* widget is in loading only while a fetch is pending.
C7_LoadingThenReadyOrError ==
    /\ [](Render.view \in {"loading", "ready", "error"})
    /\ []((loading /\ phase # "created") => InflightTotal > 0)
    /\ [][(cycles' # cycles /\ publicApiKey) =>
            (loading' /\ error' = "null" /\ Render'.view = "loading")]_vars
    /\ [][(cycles' # cycles /\ ~publicApiKey) => Render'.view = "error"]_vars
    /\ [][(\E v \in VenueIds : FetchSucceeded(v) \/ FetchFailed(v)) =>
            (~loading' /\ Render'.view \in {"ready", "error"}
             /\ (Render'.view = "ready" => venueData'.set))]_vars

\* A refresh started by the timer has failed after an earlier success.
C7_Witness ==
    /\ cycles = 2
    /\ InflightTotal = 0
    /\ venueData.set
    /\ Render.view = "error"
    /\ error = HttpMessage

\* C8: without a key a fetch cycle issues no request and ends in the error
\* state; a fetch that fails leaves the widget in the error state; the error
\* state shows the retry control, and a click on it starts a new fetch cycle.
C8_LocalFailuresShowRetry ==
    /\ [](~publicApiKey => InflightTotal = 0)
    /\ []((~publicApiKey /\ cycles > 0) =>
            (Render.view = "error" /\ error = KeyMessage))
    /\ [](Render.view = "error" <=> Render.retry)
    /\ [][(\E v \in VenueIds : FetchFailed(v)) =>
            (Render'.view = "error" /\ error' # "null")]_vars
    /\ [][Retry => (Render.view = "error" /\ cycles' = cycles + 1)]_vars

\* Without a key, the retry control was used and the widget is in error again.
C8_Witness ==
    /\ ~publicApiKey
    /\ phase = "mounted"
    /\ cycles = 2
    /\ caller = "click"
    /\ InflightTotal = 0
    /\ Render.retry
    /\ error = KeyMessage

\* A fetch has failed and the widget shows the error state.
FailedAndShown == Render.view = "error" /\ error # "null"

\* C9 as stated: once a fetch has failed and the widget is in the error
\* state, a fetch cycle starts only by the retry control or a venueId change.
C9_AsClaimed ==
    [][(FailedAndShown /\ cycles' # cycles) => (Retry \/ VenueIdChange)]_vars

\* C9 amended: once a fetch has failed and the widget is in the error state,
\* a fetch cycle starts only by the retry control, a venueId change or the
\* next tick of the 5-minute timer; the failure itself starts none.
C9_NoRetryOfItsOwn ==
    /\ [][(FailedAndShown /\ cycles' # cycles) =>
            (Retry \/ VenueIdChange \/ TimerTick)]_vars
    /\ [][(\E v \in VenueIds : FetchFailed(v)) =>
            (cycles' = cycles /\ InflightTotal' < InflightTotal)]_vars

\* The timer has started a fetch in the error state left by a failed fetch.
C9_Witness ==
    /\ publicApiKey
    /\ cycles = 2
    /\ InflightTotal = 1
    /\ loading
    /\ ~venueData.set
    /\ error = "null"
    /\ caller = "interval"
    /\ interval

\* C10: after unmount the interval is cleared and no fetch cycle starts, but
\* unmount cancels no pending fetch, whose completion still calls the setters.
C10_UnmountClearsTimerOnly ==
    /\ [](phase = "unmounted" => ~interval)
    /\ [][phase = "unmounted" => cycles' = cycles]_vars
    /\ [][Unmount => (inflight' = inflight /\ ~interval')]_vars
    /\ [](lateUpdate => phase = "unmounted")

\* A fetch pending at unmount has set the venue data of the unmounted widget.
C10_Witness ==
    /\ phase = "unmounted"
    /\ lateUpdate
    /\ venueData.set
    /\ ~loading
    /\ cycles = 1

(***************************************************************************)
(* C15, checked under SpecGateway.                                         *)
(***************************************************************************)
\* The request bodies that differ from b in budget and tripType at most.
SameCity(b) ==
    {[cityName |-> b.cityName, budget |-> bu, tripType |-> tt] :
        bu \in Budgets, tt \in TripTypes}

\* C15: the upstream queries issued and the recommendation sent for a request
\* are those of every request with the same cityName and the same upstream
\* answers, whatever its budget and tripType.
C15_BudgetAndTripTypeIgnored ==
    route = "recommend" =>
        \A b \in SameCity(body) :
            /\ Len(upstream) >= 1 => upstream[1].textQuery = AttractionsQuery(b)
            /\ Len(upstream) >= 2 => upstream[2].textQuery = RestaurantsQuery(b)
            /\ Len(upstream) <= 2
            /\ RecommendationSent =>
                 Sent = recommendation(b.cityName, attractions, restaurants)

\* A recommendation for a "food" trip on a "low" budget has been sent.
C15_Witness ==
    /\ RecommendationSent
    /\ body.budget = "low"
    /\ body.tripType = "food"
    /\ Len(upstream) = 2
    /\ Len(attractions) = 4

(***************************************************************************)
(* C16, C18, C19, checked under SpecVenue.                                 *)
(***************************************************************************)
\* C16: whenever venue data is set (so in every ready state) the wait time is
\* an integer in 0..29 and the crowd level is Low, Moderate or High; every
\* successful fetch computes the level from the hour at that moment and
\* draws the wait time anew.
C16_WaitAndLevelRanges ==
    /\ [](venueData.set =>
            /\ venueData.currentWaitTime \in 0..29
            /\ venueData.crowdLevel \in {"Low", "Moderate", "High"})
    /\ [][\A v \in VenueIds :
            FetchSucceeded(v) =>
                /\ venueData'.currentWaitTime \in 0..29
                /\ venueData'.crowdLevel =
                     (IF hour \in HighHours THEN "High"
                      ELSE IF hour \in 9..17 THEN "Moderate" ELSE "Low")]_vars

\* The second cycle has succeeded with the longest wait time.
C16_Witness ==
    /\ Render.view = "ready"
    /\ cycles = 2
    /\ InflightTotal = 0
    /\ venueData.currentWaitTime = 29
    /\ venueData.crowdLevel = "Low"

\* C18 as stated: when no fetch is pending and the widget is ready, the venue
\* data shown is that of the current venueId.
C18_NoStaleVenue ==
    (phase = "mounted" /\ InflightTotal = 0 /\ Render.view = "ready")
        => venueData.name = venueId

\* C19 as stated: a completion that leaves no fetch pending shows ready when
\* it is a success and error when it is a failure.
C19_ViewFollowsLastCompletion ==
    [][/\ (\E v \in VenueIds : FetchSucceeded(v)) /\ InflightTotal' = 0
            => Render'.view = "ready"
       /\ (\E v \in VenueIds : FetchFailed(v)) /\ InflightTotal' = 0
            => Render'.view = "error"]_vars

(***************************************************************************)
(* Claims about the InteractiveMap widget, checked under SpecMap.          *)
(***************************************************************************)
\* Once the map is loaded, the attached markers are those of the last run of
\* the markers effect, one per point and in the order of the points.
MarkersFollowPoints ==
    map => /\ onMap = MarkerIds(markers)
           /\ Len(markers) = Len(points)
           /\ \A i \in 1..Len(markers) : markers[i].point = points[i]
           /\ \A i, j \in 1..Len(markers) : markers[i].id = markers[j].id => i = j

\* C11 as stated: once the map is loaded, the attached markers are exactly
\* one per point in order; with no point there is no marker and the map was
\* not fitted; with points the map was fitted and the zoom the fit ends at is
\* at most 16.
C11_MarkersAndZoomCap ==
    /\ MarkersFollowPoints
    /\ map => IF points = <<>>
              THEN markers = <<>> /\ ~fitted
              ELSE fitted /\ (pendingFit = 0 => zoom <= ZoomCap)

\* C12 as stated: while the markers effect does not run again, a place id
\* whose details were fetched with success gets no further request.
C12_FetchedOncePerPlace ==
    [][\A p \in fresh \cap fresh' : issued'[p] = issued[p]]_vars

\* C20 as stated: a popup opened after its details request succeeded shows
\* the address that request returned.
C20_PopupShowsFetchedDetails ==
    (popup.open /\ popup.fetched = "ok")
        => popup.content.address = popup.data.formattedAddress

(***************************************************************************)
(* Claims about the results views, checked under SpecResults.              *)
(***************************************************************************)
\* C13: in each of the three views, once the mount effect has run on an absent
\* item or on a text that is not valid JSON, the view is the error view with
\* its button back to the start and no exception has left the effect; the
\* message is 'No trip recommendations found' for an absent item and 'Failed
\* to load trip recommendations' for a text JSON.parse rejects.
C13_AbsentOrInvalidShowsError ==
    (resultsPhase # "created" /\ (~stored.present \/ ~JSONparse(stored.text).ok))
        => /\ ResultsRender = [view |-> "error", back |-> TRUE]
           /\ ~escaped
           /\ ~stored.present => resultsError = "No trip recommendations found"
           /\ (stored.present /\ stored.text # <<>>)
                  => resultsError = "Failed to load trip recommendations"

C13_Witness ==
    /\ resultsPhase = "mounted"
    /\ variant = "enhanced"
    /\ stored.present
    /\ Len(stored.text) = 2
    /\ ~JSONparse(stored.text).ok
    /\ ResultsRender.view = "error"

\* The reference has the four pieces places, a place id, photos, a photo id.
ExpectedReference(ref) ==
    LET parts == Split(ref)
    IN  Len(parts) = 4 /\ parts[1] = <<"places">> /\ parts[3] = <<"photos">>

\* C14 as stated: getPhotoUrl of part_000 returns the empty string for every
\* reference that is not of the form places/{placeId}/photos/{photoId}, and a
\* URL it builds has a place id and a photo id taken from the reference.
C14_FourSegmentsOrEmpty ==
    (variant = "part_000" /\ photoReference # <<>>)
        => /\ ~ExpectedReference(photoReference) => photoUrl.empty
           /\ ~photoUrl.empty => photoUrl.placeId.defined /\ photoUrl.photoId.defined

\* The six slots in the order of the claim, and the time of each.
SlotAt(rec, k) ==
    CASE k = 1 -> rec.day1.morning
      [] k = 2 -> rec.day1.afternoon
      [] k = 3 -> rec.day1.evening
      [] k = 4 -> rec.day2.morning
      [] k = 5 -> rec.day2.afternoon
      [] k = 6 -> rec.day2.evening

TimeAt(k) == IF k \in {1, 4} THEN "09:00" ELSE IF k \in {2, 5} THEN "14:00" ELSE "19:00"

\* The places of slot k: none for a missing slot or places that is no array.
PlacesAt(rec, k) ==
    LET slot == SlotAt(rec, k)
    IN  IF slot.present /\ slot.places.kind = "array" THEN slot.places.items ELSE <<>>

RECURSIVE PlacesBefore(_, _)
PlacesBefore(rec, k) ==
    IF k = 1 THEN 0 ELSE PlacesBefore(rec, k - 1) + Len(PlacesAt(rec, k - 1))

\* C17: the itinerary the enhanced view computes from the parsed value is
\* empty when the value, day1 or day2 is missing; otherwise it has one item
\* per place of the six slots, day1 before day2 and morning, afternoon,
\* evening inside a day, in the order of the places of a slot, each with
\* duration 60, cost 0 and the time of its slot; a missing slot and places
\* that is no array count as no place.
C17_OneItemPerPlaceInOrder ==
    (/\ variant = "enhanced"
     /\ resultsPhase # "created"
     /\ stored.present
     /\ JSONparse(stored.text).ok)
        => LET rec == JSONparse(stored.text).value
           IN  IF ~Truthy(rec) \/ ~rec.day1.present \/ ~rec.day2.present
               THEN editedItinerary = <<>>
               ELSE /\ Len(editedItinerary) = PlacesBefore(rec, 7)
                    /\ \A k \in 1..6 : \A j \in 1..Len(PlacesAt(rec, k)) :
                         LET item == editedItinerary[PlacesBefore(rec, k) + j]
                         IN  /\ item.id = PlacesAt(rec, k)[j].id
                             /\ item.title = PlacesAt(rec, k)[j].name
                             /\ item.time = TimeAt(k)
                             /\ item.duration = 60
                             /\ item.cost = 0

C17_Witness ==
    /\ variant = "enhanced"
    /\ resultsPhase = "mounted"
    /\ Len(editedItinerary) >= 6
    /\ editedItinerary[1].time = "14:00"
    /\ editedItinerary[1].id # editedItinerary[2].id
    /\ editedItinerary[2].time = "14:00"

\* C21 as stated: whatever the storage holds, once the mount effect has run
\* the view is the error view or the itinerary, never the spinner. Nothing
\* but the mount effect sets the recommendation or the error, so a spinner
\* after the mount stays for good.
C21_ErrorOrLoadedAfterMount ==
    resultsPhase = "mounted" => ResultsRender.view \in {"error", "loaded"}
====
